---- MODULE Spec2Model ----
(***************************************************************************)
(* Verification model of tabroom_auto_summarize:                           *)
(*   - the Texttable renderer copied into batch_get_recent_summary.py      *)
(*   - the request handler website/lambda/lambda_handler.py                *)
(*   - the generation handler docker-deployment/main.py                    *)
(*                                                                         *)
(* Python strings are sequences of one-character strings.  Python values   *)
(* handed to the table are records [k, s, n]: k is the Python type, s the   *)
(* text of a str, n the number of quarters of a finite number (5.25 is 21). *)
(***************************************************************************)
EXTENDS Integers, Sequences, FiniteSets, TLC

(***************************************************************************)
(* Bounds of the model                                                     *)
(***************************************************************************)
\* the calls of one run of the caller of Spec
MaxCalls == 3

\* the rows a table of SpecDraw holds
MaxRows == 2

\* the requests the web site sends to lambda_handler
MaxRequests == 2

(***************************************************************************)
(* Generic sequence helpers                                                *)
(***************************************************************************)
Min2(a, b) == IF a <= b THEN a ELSE b

Max2(a, b) == IF a >= b THEN a ELSE b

Abs(a) == IF a < 0 THEN 0 - a ELSE a

\* s * n of Python: n copies of the sequence s, nothing when n <= 0
RECURSIVE Repeat(_, _)
Repeat(s, n) == IF n <= 0 THEN << >> ELSE s \o Repeat(s, n - 1)

\* concatenation of a sequence of sequences
RECURSIVE Flatten(_)
Flatten(ss) == IF ss = << >> THEN << >> ELSE Head(ss) \o Flatten(Tail(ss))

\* sep.join(parts)
RECURSIVE Join(_, _)
Join(sep, parts) ==
  IF parts = << >> THEN << >>
  ELSE IF Len(parts) = 1 THEN parts[1]
  ELSE parts[1] \o sep \o Join(sep, Tail(parts))

RECURSIVE SumSeq(_)
SumSeq(s) == IF s = << >> THEN 0 ELSE Head(s) + SumSeq(Tail(s))

RECURSIVE MaxSeq(_)
MaxSeq(s) == IF Len(s) = 1 THEN s[1] ELSE Max2(Head(s), MaxSeq(Tail(s)))

RECURSIVE MinSeq(_)
MinSeq(s) == IF Len(s) = 1 THEN s[1] ELSE Min2(Head(s), MinSeq(Tail(s)))

\* an attribute that may be missing (hasattr is false) or None: << >>, or <<v>>
Unset == << >>

Some(v) == <<v>>

IsSet(o) == o # << >>

Val(o) == o[1]

(***************************************************************************)
(* Python values and their text                                            *)
(***************************************************************************)
PyStr(s) == [k |-> "str", s |-> s, n |-> 0]

PyNone == [k |-> "none", s |-> << >>, n |-> 0]

PyInt(i) == [k |-> "int", s |-> << >>, n |-> 4 * i]

PyFloat(quarters) == [k |-> "float", s |-> << >>, n |-> quarters]

PyNaN == [k |-> "nan", s |-> << >>, n |-> 0]

PyInf == [k |-> "inf", s |-> << >>, n |-> 0]

PyNegInf == [k |-> "ninf", s |-> << >>, n |-> 0]

\* a value that is neither text nor a number, here the empty list []
PyList == [k |-> "list", s |-> << >>, n |-> 0]

DigitChars == <<"0", "1", "2", "3", "4", "5", "6", "7", "8", "9">>

IsDigit(c) == \E d \in 1..10 : DigitChars[d] = c

DigitOf(c) == (CHOOSE d \in 1..10 : DigitChars[d] = c) - 1

\* decimal digits of a natural number, most significant first
RECURSIVE NatDigits(_)
NatDigits(m) == IF m < 10 THEN <<m>> ELSE Append(NatDigits(m \div 10), m % 10)

DigitsText(ds) == [j \in 1..Len(ds) |-> DigitChars[ds[j] + 1]]

\* str(i) for an int i
IntText(i) == IF i < 0 THEN <<"-">> \o DigitsText(NatDigits(0 - i)) ELSE DigitsText(NatDigits(i))

\* the two decimal digits of q quarters, q in 0..3
QuarterDigits(q) == <<(q * 25) \div 10, (q * 25) % 10>>

\* digit sequence + 1, with carry (the result may be one digit longer)
RECURSIVE IncDigits(_)
IncDigits(ds) ==
  IF ds = << >> THEN <<1>>
  ELSE IF ds[Len(ds)] < 9 THEN [ds EXCEPT ![Len(ds)] = @ + 1]
  ELSE Append(IncDigits(SubSeq(ds, 1, Len(ds) - 1)), 0)

AllZero(ds) == \A j \in 1..Len(ds) : ds[j] = 0

\* keep the first keep digits of ds (padding with zeros), rounding half to even
\* on the digits dropped, as the C library does for an exactly known value
RoundDigits(ds, keep) ==
  IF keep >= Len(ds) THEN ds \o Repeat(<<0>>, keep - Len(ds))
  ELSE LET kept == SubSeq(ds, 1, keep)
           rest == SubSeq(ds, keep + 1, Len(ds))
           up == \/ rest[1] > 5
                 \/ /\ rest[1] = 5
                    /\ \/ ~AllZero(Tail(rest))
                       \/ keep > 0 /\ kept[keep] % 2 = 1
       IN IF up THEN IncDigits(kept) ELSE kept

\* the exact decimal expansion of |n| quarters
IntPart(n) == NatDigits(Abs(n) \div 4)

FracPart(n) == QuarterDigits(Abs(n) % 4)

SignText(n) == IF n < 0 THEN <<"-">> ELSE << >>

\* "%.*f" % (p, f)
FormatFixed(p, n) ==
  LET ip == IntPart(n)
      r == RoundDigits(ip \o FracPart(n), Len(ip) + p)
      \* a carry out of the leading digit lengthens the integer part
      il == Len(r) - p
      r1 == IF il = 0 THEN <<0>> \o r ELSE r
      il1 == Max2(il, 1)
  IN SignText(n) \o DigitsText(SubSeq(r1, 1, il1))
       \o (IF p > 0 THEN <<".">> \o DigitsText(SubSeq(r1, il1 + 1, Len(r1))) ELSE << >>)

\* index of the first non-zero digit, 0 when there is none
FirstNonZero(ds) ==
  IF AllZero(ds) THEN 0 ELSE CHOOSE j \in 1..Len(ds) : ds[j] # 0 /\ AllZero(SubSeq(ds, 1, j - 1))

ExpText(e) ==
  (IF e < 0 THEN <<"-">> ELSE <<"+">>)
    \o (IF Abs(e) < 10 THEN <<"0">> ELSE << >>) \o DigitsText(NatDigits(Abs(e)))

\* "%.*e" % (p, f)
FormatExp(p, n) ==
  LET ip == IntPart(n)
      all == ip \o FracPart(n)
      k == FirstNonZero(all)
      sig == IF k = 0 THEN <<0>> ELSE SubSeq(all, k, Len(all))
      e0 == IF k = 0 THEN 0 ELSE Len(ip) - k
      r == RoundDigits(sig, p + 1)
      carried == Len(r) > p + 1
      m == IF carried THEN SubSeq(r, 1, p + 1) ELSE r
      e == IF carried THEN e0 + 1 ELSE e0
  IN SignText(n) \o DigitsText(<<m[1]>>)
       \o (IF p > 0 THEN <<".">> \o DigitsText(Tail(m)) ELSE << >>)
       \o <<"e">> \o ExpText(e)

\* int(round(f)): Python 3 rounds half to even
RoundInt(n) ==
  LET a == Abs(n)
      w == a \div 4
      q == a % 4
      m == IF q > 2 \/ (q = 2 /\ w % 2 = 1) THEN w + 1 ELSE w
  IN IF n < 0 THEN 0 - m ELSE m

\* repr of a finite float with a quarter fraction: 5.25, 2.5, 3.0
FloatText(n) ==
  LET q == Abs(n) % 4
  IN SignText(n) \o DigitsText(IntPart(n)) \o <<".">>
       \o (CASE q = 0 -> <<"0">> [] q = 1 -> <<"2", "5">> [] q = 2 -> <<"5">> [] q = 3 -> <<"7", "5">>)

\* str(x)
str(x) ==
  CASE x.k = "str" -> x.s
    [] x.k = "none" -> <<"N", "o", "n", "e">>
    [] x.k = "int" -> IntText(x.n \div 4)
    [] x.k = "float" -> FloatText(x.n)
    [] x.k = "nan" -> <<"n", "a", "n">>
    [] x.k = "inf" -> <<"i", "n", "f">>
    [] x.k = "ninf" -> <<"-", "i", "n", "f">>
    [] x.k = "list" -> <<"[", "]">>

(***************************************************************************)
(* float(x): [ok, k, n] with k one of "fin", "nan", "inf", "ninf".  Text is *)
(* read as [sign] digits [. digits] or [sign] nan / inf / infinity; the     *)
(* fraction of a numeral is a number of quarters (the CASE has no other     *)
(* arm), and no text of the model uses an exponent or surrounding blanks.   *)
(***************************************************************************)
NotFloat == [ok |-> FALSE, k |-> "fin", n |-> 0]

Finite(n) == [ok |-> TRUE, k |-> "fin", n |-> n]

RECURSIVE DigitsValue(_)
DigitsValue(cs) ==
  IF cs = << >> THEN 0 ELSE 10 * DigitsValue(SubSeq(cs, 1, Len(cs) - 1)) + DigitOf(cs[Len(cs)])

RECURSIVE StripZeros(_)
StripZeros(cs) ==
  IF cs # << >> /\ cs[Len(cs)] = "0" THEN StripZeros(SubSeq(cs, 1, Len(cs) - 1)) ELSE cs

FracQuarters(cs) ==
  LET f == StripZeros(cs)
  IN CASE f = << >> -> 0
       [] f = <<"2", "5">> -> 1
       [] f = <<"5">> -> 2
       [] f = <<"7", "5">> -> 3

ParseFloat(cs) ==
  LET signed == cs # << >> /\ cs[1] \in {"-", "+"}
      neg == signed /\ cs[1] = "-"
      body == IF signed THEN Tail(cs) ELSE cs
      dots == {j \in 1..Len(body) : body[j] = "."}
      dot == IF dots = {} THEN Len(body) + 1 ELSE CHOOSE j \in dots : TRUE
      ip == SubSeq(body, 1, dot - 1)
      fp == SubSeq(body, dot + 1, Len(body))
      numeral == /\ Cardinality(dots) <= 1
                 /\ Len(ip) + Len(fp) > 0
                 /\ \A j \in 1..Len(ip) : IsDigit(ip[j])
                 /\ \A j \in 1..Len(fp) : IsDigit(fp[j])
      mag == 4 * DigitsValue(ip) + FracQuarters(fp)
  IN IF body = <<"n", "a", "n">> THEN [ok |-> TRUE, k |-> "nan", n |-> 0]
     ELSE IF body = <<"i", "n", "f">> \/ body = <<"i", "n", "f", "i", "n", "i", "t", "y">>
       THEN [ok |-> TRUE, k |-> IF neg THEN "ninf" ELSE "inf", n |-> 0]
     ELSE IF numeral THEN Finite(IF neg THEN 0 - mag ELSE mag)
     ELSE NotFloat

float(x) ==
  CASE x.k = "str" -> ParseFloat(x.s)
    [] x.k \in {"int", "float"} -> Finite(x.n)
    [] x.k = "nan" -> [ok |-> TRUE, k |-> "nan", n |-> 0]
    [] x.k = "inf" -> [ok |-> TRUE, k |-> "inf", n |-> 0]
    [] x.k = "ninf" -> [ok |-> TRUE, k |-> "ninf", n |-> 0]
    [] x.k \in {"none", "list"} -> NotFloat

(***************************************************************************)
(* Texttable._str: the text of a cell, or the exception it raises.          *)
(* Only str has an encode method in Python 3.                                *)
(***************************************************************************)
Returned(s) == [exc |-> "none", s |-> s]

Raised(e) == [exc |-> e, s |-> << >>]

\* the fallback of lines 286-292 and 304-310
PlainText(x) ==
  IF x.k = "str" THEN Returned(x.s)
  ELSE IF x.k = "none" THEN Returned(str(x))
  ELSE Raised("AttributeError")

Threshold == 400000000

_str(self, i, x) ==
  LET f == float(x)
      n == self._precision
  IN IF ~f.ok \/ f.k # "fin" THEN PlainText(x)
     ELSE IF i > Len(Val(self._dtype)) THEN Raised("IndexError")
     ELSE LET dtype == Val(self._dtype)[i]
          IN CASE dtype = "i" -> Returned(IntText(RoundInt(f.n)))
               [] dtype = "f" -> Returned(FormatFixed(n, f.n))
               [] dtype = "e" -> Returned(FormatExp(n, f.n))
               [] dtype = "t" -> PlainText(x)
               [] OTHER ->
                    IF f.n % 4 = 0
                    THEN IF Abs(f.n) > Threshold
                         THEN Returned(FormatExp(n, f.n))
                         ELSE Returned(IntText(RoundInt(f.n)))
                    ELSE IF Abs(f.n) > Threshold
                         THEN Returned(FormatExp(n, f.n))
                         ELSE Returned(FormatFixed(n, f.n))

(***************************************************************************)
(* int(x) as set_cols_width uses it                                         *)
(***************************************************************************)
IsIntLiteral(cs) ==
  LET body == IF cs # << >> /\ cs[1] \in {"-", "+"} THEN Tail(cs) ELSE cs
  IN body # << >> /\ \A j \in 1..Len(body) : IsDigit(body[j])

IntLiteral(cs) ==
  IF cs[1] = "-" THEN 0 - DigitsValue(Tail(cs))
  ELSE IF cs[1] = "+" THEN DigitsValue(Tail(cs))
  ELSE DigitsValue(cs)

int(x) ==
  CASE x.k = "int" -> [exc |-> "none", v |-> x.n \div 4]
    [] x.k = "float" -> [exc |-> "none", v |-> IF x.n < 0 THEN 0 - (Abs(x.n) \div 4) ELSE x.n \div 4]
    [] x.k = "str" -> IF IsIntLiteral(x.s) THEN [exc |-> "none", v |-> IntLiteral(x.s)]
                      ELSE [exc |-> "ValueError", v |-> 0]
    [] x.k = "nan" -> [exc |-> "ValueError", v |-> 0]
    [] x.k \in {"inf", "ninf"} -> [exc |-> "OverflowError", v |-> 0]
    [] x.k \in {"none", "list"} -> [exc |-> "TypeError", v |-> 0]

(***************************************************************************)
(* The Texttable object.  An operation is an operator from the object (and  *)
(* its arguments) to [self, exc, ret]: the object after the call, the        *)
(* exception the call raised ("none" when it returned) and what it returned. *)
(***************************************************************************)
BORDER == 1

HEADER == 2

HLINES == 4

VLINES == 8

\* deco & flag > 0
HasFlag(deco, flag) == (deco \div flag) % 2 = 1

Ok(self) == [self |-> self, exc |-> "none", ret |-> Unset]

Raise(self, e) == [self |-> self, exc |-> e, ret |-> Unset]

\* x[:1] for x in [str(s) for s in array]
FirstChar(x) == SubSeq(str(x), 1, Min2(1, Len(str(x))))

set_chars(self, array) ==
  IF Len(array) # 4 THEN Raise(self, "ArraySizeError")
  ELSE Ok([self EXCEPT !._char_horiz = FirstChar(array[1]),
                       !._char_vert = FirstChar(array[2]),
                       !._char_corner = FirstChar(array[3]),
                       !._char_header = FirstChar(array[4])])

reset(self) ==
  Ok([self EXCEPT !._hline_string = Unset, !._row_size = Unset,
                  !._header = << >>, !._rows = << >>])

\* the attributes __init__ sets; _align, _valign, _dtype and _width do not exist yet
Texttable(max_width) ==
  [_max_width |-> IF max_width <= 0 THEN 0 ELSE max_width,
   _precision |-> 3,
   _deco |-> VLINES + HLINES + BORDER + HEADER,
   _char_horiz |-> <<"-">>, _char_vert |-> <<"|">>,
   _char_corner |-> <<"+">>, _char_header |-> <<"=">>,
   _hline_string |-> Unset, _row_size |-> Unset,
   _header |-> << >>, _rows |-> << >>,
   _align |-> Unset, _valign |-> Unset, _dtype |-> Unset, _width |-> Unset]

set_deco(self, deco) == Ok([self EXCEPT !._deco = deco])

\* "not self._row_size" holds for None and for 0
_check_row_size(self, array) ==
  IF ~IsSet(self._row_size) \/ Val(self._row_size) = 0
  THEN Ok([self EXCEPT !._row_size = Some(Len(array))])
  ELSE IF Val(self._row_size) # Len(array) THEN Raise(self, "ArraySizeError")
  ELSE Ok(self)

set_cols_align(self, array) ==
  LET c == _check_row_size(self, array)
  IN IF c.exc # "none" THEN c ELSE Ok([c.self EXCEPT !._align = Some(array)])

set_cols_valign(self, array) ==
  LET c == _check_row_size(self, array)
  IN IF c.exc # "none" THEN c ELSE Ok([c.self EXCEPT !._valign = Some(array)])

set_cols_dtype(self, array) ==
  LET c == _check_row_size(self, array)
  IN IF c.exc # "none" THEN c ELSE Ok([c.self EXCEPT !._dtype = Some(array)])

\* list(map(int, array)): the first exception, if any
FirstExc(rs) ==
  IF \A j \in 1..Len(rs) : rs[j].exc = "none" THEN "none"
  ELSE rs[CHOOSE j \in 1..Len(rs) : rs[j].exc # "none" /\ \A h \in 1..(j - 1) : rs[h].exc = "none"].exc

set_cols_width(self, array) ==
  LET c == _check_row_size(self, array)
      ints == [j \in 1..Len(array) |-> int(array[j])]
      widths == [j \in 1..Len(array) |-> ints[j].v]
  IN IF c.exc # "none" THEN c
     ELSE IF FirstExc(ints) # "none" THEN Raise(c.self, FirstExc(ints))
     \* reduce(min, []) of an empty array
     ELSE IF widths = << >> THEN Raise(c.self, "TypeError")
     ELSE IF MinSeq(widths) <= 0 THEN Raise(c.self, "ValueError")
     ELSE Ok([c.self EXCEPT !._width = Some(widths)])

set_precision(self, width) ==
  IF width.k # "int" \/ width.n < 0 THEN Raise(self, "ValueError")
  ELSE Ok([self EXCEPT !._precision = width.n \div 4])

\* the header cells formatted as add_row formats the cells of a row
header_FormatsByDtype(self, array) ==
  LET c == _check_row_size(self, array)
      t == IF IsSet(c.self._dtype) THEN c.self
           ELSE [c.self EXCEPT !._dtype = Some(Repeat(<<"a">>, Val(c.self._row_size)))]
  IN IF c.exc # "none" THEN c
     ELSE Ok([c.self EXCEPT !._header = [j \in 1..Len(array) |-> _str(t, j, array[j]).s]])

header(self, array) ==
  LET c == _check_row_size(self, array)
  IN IF c.exc # "none" THEN c
     ELSE Ok([c.self EXCEPT !._header = [j \in 1..Len(array) |-> str(array[j])]])

add_row(self, array) ==
  LET c == _check_row_size(self, array)
      t == IF IsSet(c.self._dtype) THEN c.self
           ELSE [c.self EXCEPT !._dtype = Some(Repeat(<<"a">>, Val(c.self._row_size)))]
      cells == [j \in 1..Len(array) |-> _str(t, j, array[j])]
  IN IF c.exc # "none" THEN c
     ELSE IF FirstExc(cells) # "none" THEN Raise(t, FirstExc(cells))
     ELSE Ok([t EXCEPT !._rows = Append(@, [j \in 1..Len(array) |-> cells[j].s])])

\* for row in rows: self.add_row(row)
RECURSIVE AddEach(_, _)
AddEach(self, rows) ==
  IF rows = << >> THEN Ok(self)
  ELSE LET r == add_row(self, Head(rows))
       IN IF r.exc # "none" THEN r ELSE AddEach(r.self, Tail(rows))

\* rows is a list: it has no attribute "next", so the else branch of line 241 runs
add_rows(self, rows, hdr) ==
  IF hdr
  THEN IF rows = << >> THEN Raise(self, "IndexError")
       ELSE LET h == header(self, rows[1])
            IN IF h.exc # "none" THEN h ELSE AddEach(h.self, Tail(rows))
  ELSE AddEach(self, rows)

(***************************************************************************)
(* Measuring and wrapping cells                                             *)
(***************************************************************************)
ESC == "ESC"

TAB == "\t"

NL == "\n"

SPACE == " "

FirstIndex(cs, ch) == CHOOSE j \in 1..Len(cs) : cs[j] = ch /\ \A h \in 1..(j - 1) : cs[h] # ch

Contains(cs, ch) == \E j \in 1..Len(cs) : cs[j] = ch

\* re.compile(r"\x1b[^m]*m").sub("", cs)
RECURSIVE StripAnsi(_)
StripAnsi(cs) ==
  IF cs = << >> THEN << >>
  ELSE IF Head(cs) = ESC /\ Contains(Tail(cs), "m")
       THEN StripAnsi(SubSeq(cs, FirstIndex(Tail(cs), "m") + 2, Len(cs)))
       ELSE <<Head(cs)>> \o StripAnsi(Tail(cs))

\* re.findall(r"\x1b[^m]*m", cs)
RECURSIVE FindAnsi(_)
FindAnsi(cs) ==
  IF cs = << >> THEN << >>
  ELSE IF Head(cs) = ESC /\ Contains(Tail(cs), "m")
       THEN <<SubSeq(cs, 1, FirstIndex(Tail(cs), "m") + 1)>>
              \o FindAnsi(SubSeq(cs, FirstIndex(Tail(cs), "m") + 2, Len(cs)))
       ELSE FindAnsi(Tail(cs))

\* cs.split(sep): always at least one part
RECURSIVE Split(_, _)
Split(cs, sep) ==
  IF ~Contains(cs, sep) THEN <<cs>>
  ELSE <<SubSeq(cs, 1, FirstIndex(cs, sep) - 1)>>
         \o Split(SubSeq(cs, FirstIndex(cs, sep) + 1, Len(cs)), sep)

\* lines 393-398: the length of one line, a tab advancing to the next multiple of 8
RECURSIVE TabLength(_, _)
TabLength(parts, length) ==
  IF Len(parts) = 1 THEN length + Len(parts[1])
  ELSE TabLength(Tail(parts), ((length + Len(parts[1])) \div 8 + 1) * 8)

_len_cell(cell) ==
  LET cell_lines == Split(StripAnsi(cell), NL)
  IN MaxSeq(<<0>> \o [j \in 1..Len(cell_lines) |-> TabLength(Split(cell_lines[j], TAB), 0)])

\* textwrap.wrap(c, width) for text without white space: one word, broken into
\* pieces of width characters; no line at all for empty text
RECURSIVE Chunks(_, _)
Chunks(c, width) ==
  IF c = << >> THEN << >>
  ELSE IF Len(c) <= width THEN <<c>>
  ELSE <<SubSeq(c, 1, width)>> \o Chunks(SubSeq(c, width + 1, Len(c)), width)

wrap(c, width) ==
  IF width <= 0 THEN [exc |-> "ValueError", lines |-> << >>]
  ELSE [exc |-> "none", lines |-> Chunks(c, width)]

AnsiReset == <<ESC, "[", "0", "m">>

\* lines 531-537: the escape sequences still open after those of found
RECURSIVE AnsiKeep(_, _)
AnsiKeep(found, keep) ==
  IF found = << >> THEN keep
  ELSE IF Head(found) = AnsiReset
       THEN AnsiKeep(Tail(found), IF keep = << >> THEN keep ELSE SubSeq(keep, 1, Len(keep) - 1))
       ELSE AnsiKeep(Tail(found), Append(keep, Head(found)))

\* lines 527-549: the wrapped lines of the parts of one cell
RECURSIVE WrapParts(_, _, _)
WrapParts(parts, ansi_keep, width) ==
  IF parts = << >> THEN [exc |-> "none", lines |-> << >>]
  ELSE LET c0 == Flatten(ansi_keep) \o Head(parts)
           found == FindAnsi(c0)
           keep == AnsiKeep(found, << >>)
           c == c0 \o Flatten([j \in 1..Len(keep) |-> AnsiReset])
           extra_width == SumSeq([j \in 1..Len(found) |-> Len(found[j])]) + 4 * Len(keep)
           w == wrap(c, width + extra_width)
           rest == WrapParts(Tail(parts), keep, width)
       IN IF w.exc # "none" THEN w
          ELSE IF rest.exc # "none" THEN rest
          ELSE [exc |-> "none", lines |-> w.lines \o rest.lines]

\* lines 552-562: vertical padding of one wrapped cell
PadCell(cell, valign, isheader, max_cell_lines) ==
  LET v == IF isheader THEN "t" ELSE valign
      missing == max_cell_lines - Len(cell)
  IN IF v = "m"
     THEN Repeat(<< << >> >>, missing \div 2) \o cell \o Repeat(<< << >> >>, missing \div 2 + (missing % 2))
     ELSE IF v = "b" THEN Repeat(<< << >> >>, missing) \o cell
     ELSE cell \o Repeat(<< << >> >>, missing)

_splitit(self, line, isheader) ==
  LET width == Val(self._width)
      valign == Val(self._valign)
      k == Min2(Len(line), Len(width))
      wrapped == [j \in 1..k |-> WrapParts(Split(line[j], NL), << >>, width[j])]
      line_wrapped == [j \in 1..k |-> wrapped[j].lines]
      max_cell_lines == MaxSeq([j \in 1..k |-> Len(line_wrapped[j])])
  IN IF FirstExc(wrapped) # "none" THEN [exc |-> FirstExc(wrapped), cells |-> << >>]
     \* reduce(max, []) of no cell at all
     ELSE IF k = 0 THEN [exc |-> "TypeError", cells |-> << >>]
     ELSE [exc |-> "none",
           cells |-> [j \in 1..k |->
                       IF j <= Len(valign)
                       THEN PadCell(line_wrapped[j], valign[j], isheader, max_cell_lines)
                       ELSE line_wrapped[j]]]

(***************************************************************************)
(* Column widths (lines 402-472)                                            *)
(***************************************************************************)
\* lines 416-420: the cells of one row folded into maxi
RECURSIVE FoldRow(_, _, _)
FoldRow(maxi, row, i) ==
  IF i > Len(row) THEN maxi
  ELSE IF i <= Len(maxi)
       THEN FoldRow([maxi EXCEPT ![i] = Max2(@, _len_cell(row[i]))], row, i + 1)
       ELSE FoldRow(Append(maxi, _len_cell(row[i])), row, i + 1)

RECURSIVE FoldRows(_, _)
FoldRows(maxi, rows) ==
  IF rows = << >> THEN maxi ELSE FoldRows(FoldRow(maxi, Head(rows), 1), Tail(rows))

\* lines 412-420: the natural width of every column
NaturalWidths(self) ==
  FoldRows([j \in 1..Len(self._header) |-> _len_cell(self._header[j])], self._rows)

\* line 423
MustShrink(max_width, max_lengths) ==
  max_width # 0 /\ SumSeq(max_lengths) + Len(max_lengths) * 3 + 1 > max_width

\* lines 435-446 for one column, on the loop state [maxi, free, oversized]
ReduceCol(st, max_lengths, col) ==
  LET current_length == st.maxi[col]
      max_len == max_lengths[col]
  IN IF current_length > max_len
     THEN [st EXCEPT !.free = @ + (current_length - max_len), !.maxi[col] = max_len]
     ELSE IF max_len > current_length THEN [st EXCEPT !.oversized = @ + 1]
     ELSE st

RECURSIVE ReduceCols(_, _, _)
ReduceCols(st, max_lengths, col) ==
  IF col > Len(max_lengths) THEN st
  ELSE ReduceCols(ReduceCol(st, max_lengths, col), max_lengths, col + 1)

\* lines 424-446: the equal budget, then the columns that need less give it back
EqualBudget(max_width, max_lengths) ==
  LET items == Len(max_lengths)
  IN ReduceCols([maxi |-> [j \in 1..items |-> (max_width - items * 3 - 1) \div items],
                 free |-> 0, oversized |-> 0],
                max_lengths, 1)

\* the quotient rounded down instead of up
CeilDiv_Floor(free, oversized) == free \div oversized

\* int(math.ceil(float(free) / float(oversized))), oversized # 0
CeilDiv(free, oversized) == (free + oversized - 1) \div oversized

\* lines 454-471 for one column
TopUpCol(st, max_lengths, col, free_part) ==
  LET current_length == st.maxi[col]
      max_len == max_lengths[col]
      needed == max_len - current_length
  IN IF current_length < max_len
     THEN IF needed <= free_part
          THEN [st EXCEPT !.maxi[col] = max_len, !.free = @ - needed, !.oversized = @ - 1]
          ELSE [st EXCEPT !.maxi[col] = @ + free_part, !.free = @ - free_part]
     ELSE st

RECURSIVE TopUpCols(_, _, _, _)
TopUpCols(st, max_lengths, col, free_part) ==
  IF col > Len(max_lengths) THEN st
  ELSE TopUpCols(TopUpCol(st, max_lengths, col, free_part), max_lengths, col + 1, free_part)

\* lines 451-471: one pass of the while loop, entered with free > 0 and oversized # 0
Pass(st, max_lengths) == TopUpCols(st, max_lengths, 1, CeilDiv(st.free, st.oversized))

\* lines 449-471: the while loop; [exc, maxi]
RECURSIVE Distribute(_, _)
Distribute(st, max_lengths) ==
  IF st.free <= 0 THEN [exc |-> "none", maxi |-> st.maxi]
  ELSE IF st.oversized = 0 THEN [exc |-> "ZeroDivisionError", maxi |-> st.maxi]
  ELSE Distribute(Pass(st, max_lengths), max_lengths)

_compute_cols_width(self) ==
  LET maxi == NaturalWidths(self)
      d == Distribute(EqualBudget(self._max_width, maxi), maxi)
  IN IF IsSet(self._width) THEN Ok(self)
     \* reduce(lambda x, y: x + y, []) of no column at all
     ELSE IF maxi = << >> THEN Raise(self, "TypeError")
     ELSE IF MustShrink(self._max_width, maxi)
          THEN IF d.exc # "none" THEN Raise(self, d.exc)
               ELSE Ok([self EXCEPT !._width = Some(d.maxi)])
          ELSE Ok([self EXCEPT !._width = Some(maxi)])

_check_align(self) ==
  LET a == IF IsSet(self._align) THEN self
           ELSE [self EXCEPT !._align = Some(Repeat(<<"l">>, Val(self._row_size)))]
  IN IF IsSet(a._valign) THEN a
     ELSE [a EXCEPT !._valign = Some(Repeat(<<"t">>, Val(self._row_size)))]

(***************************************************************************)
(* Drawing (lines 247-272, 331-379, 482-513)                                *)
(***************************************************************************)
_has_vlines(self) == HasFlag(self._deco, VLINES)

_has_hlines(self) == HasFlag(self._deco, HLINES)

_has_border(self) == HasFlag(self._deco, BORDER)

_has_header(self) == HasFlag(self._deco, HEADER)

_build_hline(self, is_header) ==
  LET horiz == IF is_header THEN self._char_header ELSE self._char_horiz
      sep == horiz \o (IF _has_vlines(self) THEN self._char_corner ELSE horiz) \o horiz
      width == Val(self._width)
      l == Join(sep, [j \in 1..Len(width) |-> Repeat(horiz, width[j])])
  IN IF _has_border(self)
     THEN self._char_corner \o horiz \o l \o horiz \o self._char_corner \o <<NL>>
     ELSE l \o <<NL>>

_hline_header(self) == _build_hline(self, TRUE)

\* remembers the header separator instead of the line it returns
_hline_RemembersHeaderLine(self) ==
  [self |-> IF ~IsSet(self._hline_string) \/ Val(self._hline_string) = << >>
            THEN [self EXCEPT !._hline_string = Some(_build_hline(self, TRUE))]
            ELSE self,
   s |-> IF ~IsSet(self._hline_string) \/ Val(self._hline_string) = << >>
         THEN _build_hline(self, FALSE)
         ELSE Val(self._hline_string)]

\* [self, s]: the line, and the object that remembers it
_hline(self) ==
  LET t == IF ~IsSet(self._hline_string) \/ Val(self._hline_string) = << >>
           THEN [self EXCEPT !._hline_string = Some(_build_hline(self, FALSE))]
           ELSE self
  IN [self |-> t, s |-> Val(t._hline_string)]

\* lines 495-511 for the cell at position length of physical line i
DrawCell(self, cells, n, length, i, isheader) ==
  LET cell_line == cells[length][i]
      width == Val(self._width)[length]
      align == IF isheader THEN "c" ELSE Val(self._align)[length]
      fill == width - Len(StripAnsi(cell_line))
      body == IF align = "r" THEN Repeat(<<SPACE>>, fill) \o cell_line
              ELSE IF align = "c"
                   THEN Repeat(<<SPACE>>, fill \div 2) \o cell_line
                          \o Repeat(<<SPACE>>, fill \div 2 + (fill % 2))
                   ELSE cell_line \o Repeat(<<SPACE>>, fill)
  IN body \o <<SPACE>>
       \o (IF length < Len(cells)
           THEN (IF _has_vlines(self) THEN self._char_vert ELSE <<SPACE>>) \o <<SPACE>>
           ELSE << >>)

\* lines 491-512: physical line i of a wrapped row
DrawPhysical(self, cells, i, isheader) ==
  LET n == Min2(Len(cells), Min2(Len(Val(self._width)), Len(Val(self._align))))
  IN (IF _has_border(self) THEN self._char_vert \o <<SPACE>> ELSE << >>)
       \o Flatten([length \in 1..n |-> DrawCell(self, cells, n, length, i, isheader)])
       \o (IF _has_border(self) THEN self._char_vert ELSE << >>) \o <<NL>>

\* lines 491-513, on the cells _splitit returned, each a list of physical lines
DrawCells(self, cells, isheader) ==
  LET n == Min2(Len(cells), Min2(Len(Val(self._width)), Len(Val(self._align))))
      height == Len(cells[1])
  \* cell[i] of a cell that was not padded to the height of the first one
  IN IF \E j \in 1..n : Len(cells[j]) < height THEN [exc |-> "IndexError", s |-> << >>]
     ELSE [exc |-> "none",
           s |-> Flatten([i \in 1..height |-> DrawPhysical(self, cells, i, isheader)])]

\* line 488 on: sp is what _splitit returned or raised
DrawSplit(self, sp, isheader) ==
  IF sp.exc # "none" THEN [exc |-> sp.exc, s |-> << >>]
  ELSE DrawCells(self, sp.cells, isheader)

\* [exc, s]
_draw_line(self, line, isheader) == DrawSplit(self, _splitit(self, line, isheader), isheader)

NoLine(self) == [self |-> self, s |-> << >>]

\* lines 264-269: the rows from the one numbered length on; [self, exc, s]
RECURSIVE DrawRows(_, _)
\* the row block d, the separator sep and the rows after it
DrawRowsJoin(d, sep, rest) ==
  [self |-> rest.self, exc |-> rest.exc, s |-> d.s \o sep.s \o rest.s]

DrawRowsSep(d, sep, length) == DrawRowsJoin(d, sep, DrawRows(sep.self, length + 1))

\* a separator after the last row too
DrawRowsAfter_AfterLast(self, length, d) ==
  IF d.exc # "none" THEN [self |-> self, exc |-> d.exc, s |-> << >>]
  ELSE DrawRowsSep(d,
                   IF _has_hlines(self) /\ length <= Len(self._rows)
                   THEN _hline(self) ELSE NoLine(self),
                   length)

\* lines 268-269 after the row numbered length was drawn as d
DrawRowsAfter(self, length, d) ==
  IF d.exc # "none" THEN [self |-> self, exc |-> d.exc, s |-> << >>]
  ELSE DrawRowsSep(d,
                   IF _has_hlines(self) /\ length < Len(self._rows)
                   THEN _hline(self) ELSE NoLine(self),
                   length)

DrawRows(self, length) ==
  IF length > Len(self._rows) THEN [self |-> self, exc |-> "none", s |-> << >>]
  ELSE DrawRowsAfter(self, length, _draw_line(self, self._rows[length], FALSE))

\* line 272: return out[:-1]
DrawReturn(out, bottom) ==
  [self |-> bottom.self, exc |-> "none",
   ret |-> Some(SubSeq(out \o bottom.s, 1, Len(out \o bottom.s) - 1))]

\* lines 270-272, after the rows were drawn as body
DrawBottom(out, body) ==
  IF body.exc # "none" THEN Raise(body.self, body.exc)
  ELSE DrawReturn(out \o body.s,
                  IF _has_border(body.self) THEN _hline(body.self) ELSE NoLine(body.self))

\* lines 262-269, after the header was drawn as hd
DrawBody(top, hd) ==
  IF hd.exc # "none" THEN Raise(top.self, hd.exc)
  ELSE DrawBottom(top.s \o hd.s
                    \o (IF top.self._header # << >> /\ _has_header(top.self)
                        THEN _hline_header(top.self) ELSE << >>),
                  DrawRows(top.self, 1))

\* lines 260-261, after the top border top
DrawHeader(top) ==
  DrawBody(top,
           IF top.self._header # << >> THEN _draw_line(top.self, top.self._header, TRUE)
           ELSE [exc |-> "none", s |-> << >>])

\* lines 256-259, on what _compute_cols_width left or raised
DrawWidths(c) ==
  IF c.exc # "none" THEN c
  ELSE DrawHeader(IF _has_border(c.self) THEN _hline(_check_align(c.self))
                  ELSE NoLine(_check_align(c.self)))

draw(self) ==
  IF self._header = << >> /\ self._rows = << >> THEN Ok(self)
  ELSE DrawWidths(_compute_cols_width(self))

(***************************************************************************)
(* The data bucket, lambda_handler (src/website/lambda) and the generation  *)
(* function it invokes (handler of src/docker-deployment/main.py).  A key   *)
(* is a sequence of characters; a file name is kept as one element.         *)
(***************************************************************************)
Requests == 1..MaxRequests

SLASH == "/"

\* lambda_handler lines 8-12
cors_headers ==
  [Access_Control_Allow_Origin |-> "*",
   Access_Control_Allow_Headers |-> "Content-Type",
   Access_Control_Allow_Methods |-> "OPTIONS,POST,GET"]

\* f"{tournament_id}/{school_name}/{file}"
SchoolKey(tournament_id, school_name, file) ==
  tournament_id \o <<SLASH>> \o school_name \o <<SLASH, file>>

\* f"{tournament_id}/placeholder.txt"
PlaceholderKey(tournament_id) == tournament_id \o <<SLASH, "placeholder.txt">>

StartsWith(key, prefix) ==
  Len(prefix) <= Len(key) /\ SubSeq(key, 1, Len(prefix)) = prefix

\* the objects list_objects_v2(Prefix=prefix) reports: "Contents" is present,
\* and KeyCount > 0, iff there is one
list_objects_v2(b, prefix) == {o \in b : StartsWith(o.Key, prefix)}

HasKey(b, key) == \E o \in b : o.Key = key

\* get_object(Key=key)["Body"], for a key the bucket has
get_object(b, key) == (CHOOSE o \in b : o.Key = key).Body

put_object(b, key, body) == {o \in b : o.Key # key} \cup {[Key |-> key, Body |-> body]}

\* deleting a key the bucket does not have is no error
delete_object(b, key) == {o \in b : o.Key # key}

NoHandler ==
  [pc |-> "idle", body |-> << >>, file_content |-> << >>, response |-> << >>, invoked |-> 0]

NoGeneration == [pc |-> "none", event |-> << >>, todo |-> << >>]

\* lambda_handler lines 30-40, 51-61 and 74-84
Response(file_content, gpt_content) ==
  [isBase64Encoded |-> FALSE, statusCode |-> 200, headers |-> cors_headers,
   file_content |-> file_content, gpt_content |-> gpt_content]

SchoolMissing ==
  Response("Tournament exists, but school does not. Check that your school name matches the official name.",
           "N/A")

CheckBack ==
  Response("File does not exist, will attempt to generate it. Check back in about 15 minutes.",
           "N/A")

(***************************************************************************)
(* The state machine of one Texttable object and its caller                 *)
(***************************************************************************)
VARIABLES
  self,      \* the Texttable object
  call,      \* the last call made on it: [op, arg]
  exc,       \* the exception the last call raised, "none" when it returned
  ret,       \* what the last call returned: << >> for None, <<text>> for a string
  draws,     \* how many of the last calls were draw calls in a row, up to 2
  explicit,  \* set_cols_width has stored a width array in this object
  ncalls,    \* the calls made so far, where the scenario bounds them
  frame,     \* the locals of a _compute_cols_width call in progress, and its pc
  hist,      \* the configuration calls made on the object, in the order made
  bucket,    \* the objects of the data bucket: a set of [Key, Body]
  handlers,  \* the frame of each lambda_handler invocation, by request
  gens       \* the frame of the generation function each request invoked

tvars == <<self, call, exc, ret, draws, explicit, ncalls>>

lvars == <<bucket, handlers, gens>>

vars == <<tvars, frame, hist, lvars>>

\* no _compute_cols_width call is in progress
NoFrame == [pc |-> "idle"]

NoCall == [op |-> "__init__", arg |-> << >>]

\* the caller makes the call op(arg), whose outcome is r
Do(r, op, arg) ==
  /\ self' = r.self
  /\ exc' = r.exc
  /\ ret' = r.ret
  /\ call' = [op |-> op, arg |-> arg]
  /\ draws' = IF op = "draw" THEN Min2(draws + 1, 2) ELSE 0
  /\ explicit' = (explicit \/ (op = "set_cols_width" /\ r.exc = "none"))

\* __init__(max_width) has returned
Constructed(widths) ==
  /\ \E w \in widths : self = Texttable(w)
  /\ call = NoCall
  /\ exc = "none"
  /\ ret = Unset
  /\ draws = 0
  /\ explicit = FALSE
  /\ ncalls = 0
  /\ frame = NoFrame
  /\ hist = << >>
  /\ bucket = {}
  /\ handlers = [i \in Requests |-> NoHandler]
  /\ gens = [i \in Requests |-> NoGeneration]

txt(s) == PyStr(s)

A == txt(<<"a">>)

ABC == txt(<<"a", "b", "c">>)

NanText == txt(<<"n", "a", "n">>)

(***************************************************************************)
(* Spec: a caller that makes up to MaxCalls calls, of any operation          *)
(***************************************************************************)
CtorWidths == {80}

CellArgs == {A, NanText, PyNone, PyNaN, PyInf, PyNegInf, PyInt(5), PyList}

RowArgs ==
  {<< >>} \cup {<<x>> : x \in CellArgs} \cup {<<A, PyNone>>, <<PyNaN, A>>, <<A, A, A>>}

HeaderArgs == {<< >>, <<A>>, <<PyInt(5), PyNone>>}

AlignArgs == {<<"r">>, <<"c", "r">>}

ValignArgs == {<<"m">>, <<"b", "t">>}

DtypeArgs == {<<d>> : d \in {"a", "t", "f", "e", "i"}} \cup {<<"a", "t">>}

WidthArgs ==
  {<<PyInt(2)>>, <<PyInt(0)>>, <<txt(<<"x">>)>>, <<PyFloat(6)>>, <<PyInt(1), PyInt(3)>>,
   <<PyInt(3), PyInt(-1)>>, << >>}

PrecisionArgs == {PyInt(1), PyInt(-1), PyFloat(4)}

CharsArgs ==
  {<<txt(<<"~">>), txt(<<"!">>), txt(<<"*">>), txt(<<"#">>)>>,
   <<txt(<<"~">>), txt(<<"!">>), txt(<<"*">>)>>}

DecoArgs == {BORDER + HEADER, 0}

RowsArgs == {<< >>, <<<<A>>, <<ABC>>>>, <<<<A>>, <<A>>, <<A, A>>>>, <<<<A, A>>, <<A, PyList>>>>}

Init == Constructed(CtorWidths)

Counted == ncalls < MaxCalls /\ ncalls' = ncalls + 1 /\ UNCHANGED <<frame, hist, lvars>>

Reset == Counted /\ Do(reset(self), "reset", << >>)

SetChars == Counted /\ \E a \in CharsArgs : Do(set_chars(self, a), "set_chars", a)

SetDeco == Counted /\ \E d \in DecoArgs : Do(set_deco(self, d), "set_deco", d)

SetColsAlign == Counted /\ \E a \in AlignArgs : Do(set_cols_align(self, a), "set_cols_align", a)

SetColsValign ==
  Counted /\ \E a \in ValignArgs : Do(set_cols_valign(self, a), "set_cols_valign", a)

SetColsDtype == Counted /\ \E a \in DtypeArgs : Do(set_cols_dtype(self, a), "set_cols_dtype", a)

SetColsWidth == Counted /\ \E a \in WidthArgs : Do(set_cols_width(self, a), "set_cols_width", a)

SetPrecision == Counted /\ \E a \in PrecisionArgs : Do(set_precision(self, a), "set_precision", a)

Header == Counted /\ \E a \in HeaderArgs : Do(header(self, a), "header", a)

AddRow == Counted /\ \E a \in RowArgs : Do(add_row(self, a), "add_row", a)

AddRows ==
  Counted /\ \E a \in RowsArgs, h \in BOOLEAN : Do(add_rows(self, a, h), "add_rows", <<a, h>>)

Draw == Counted /\ Do(draw(self), "draw", << >>)

Next ==
  \/ Reset
  \/ SetChars
  \/ SetDeco
  \/ SetColsAlign
  \/ SetColsValign
  \/ SetColsDtype
  \/ SetColsWidth
  \/ SetPrecision
  \/ Header
  \/ AddRow
  \/ AddRows
  \/ Draw

Spec == Init /\ [][Next]_vars

(***************************************************************************)
(* SpecDraw: a caller that fills a table of text cells, changes its          *)
(* decoration and border characters and draws it, any number of times        *)
(***************************************************************************)
DrawCtorWidths == {80, 0, 6}

DrawHeaderArgs == {<<A>>, <<A, ABC>>}

DrawRowArgs == {<<A>>, <<ABC>>, <<A, A>>, <<ABC, A>>}

AllDecos == 0..(BORDER + HEADER + HLINES + VLINES)

DrawCharsArgs == {<<txt(<<"~">>), txt(<<"!">>), txt(<<"*">>), txt(<<"#">>)>>}

InitDraw == Constructed(DrawCtorWidths)

Uncounted == ncalls' = ncalls /\ UNCHANGED <<frame, hist, lvars>>

DrawSetChars == Uncounted /\ \E a \in DrawCharsArgs : Do(set_chars(self, a), "set_chars", a)

DrawSetDeco == Uncounted /\ \E d \in AllDecos : Do(set_deco(self, d), "set_deco", d)

DrawHeaderCall == Uncounted /\ \E a \in DrawHeaderArgs : Do(header(self, a), "header", a)

DrawAddRow ==
  /\ Uncounted
  /\ Len(self._rows) < MaxRows
  /\ \E a \in DrawRowArgs : Do(add_row(self, a), "add_row", a)

DrawDraw == Uncounted /\ Do(draw(self), "draw", << >>)

NextDraw ==
  \/ DrawSetChars
  \/ DrawSetDeco
  \/ DrawHeaderCall
  \/ DrawAddRow
  \/ DrawDraw

SpecDraw == InitDraw /\ [][NextDraw]_vars

(***************************************************************************)
(* SpecWidth: one draw of a table of one row, with _compute_cols_width      *)
(* taken step by step: lines 410-446, each pass of the while loop of line   *)
(* 449, line 472, and then the rest of draw                                 *)
(***************************************************************************)
MaxCols == 3

MaxNatural == 8

MaxWidth == 22

\* the passes of the while loop are counted up to here
MaxPasses == 2

WidthCtorWidths == 0..MaxWidth

\* a text cell of n characters
Filled(n) == txt(Repeat(<<"a">>, n))

WidthRowArgs ==
  UNION {[1..items -> {Filled(n) : n \in 0..MaxNatural}] : items \in 0..MaxCols}

InitWidth == Constructed(WidthCtorWidths)

\* the caller fills the table with its row
WidthAddRow ==
  /\ Uncounted
  /\ self._rows = << >>
  /\ \E a \in WidthRowArgs : Do(add_row(self, a), "add_row", a)

\* draw calls _compute_cols_width (line 254), which runs lines 410-446
WidthEnter ==
  /\ frame.pc = "idle"
  /\ (self._header # << >> \/ self._rows # << >>)
  /\ ~IsSet(self._width)
  /\ IF NaturalWidths(self) = << >>
     THEN /\ frame' = [pc |-> "raised"]
          /\ exc' = "TypeError"
     ELSE /\ frame' =
               IF MustShrink(self._max_width, NaturalWidths(self))
               THEN [pc |-> "while", max_lengths |-> NaturalWidths(self), passes |-> 0]
                    @@ EqualBudget(self._max_width, NaturalWidths(self))
               ELSE [pc |-> "line 472", max_lengths |-> NaturalWidths(self), passes |-> 0,
                     maxi |-> NaturalWidths(self), free |-> 0, oversized |-> 0]
          /\ exc' = exc
  /\ call' = [op |-> "draw", arg |-> << >>]
  /\ UNCHANGED <<self, ret, draws, explicit, ncalls, hist, lvars>>

\* lines 449-471: the loop test holds, and one pass is made
WidthPass ==
  /\ frame.pc = "while"
  /\ frame.free > 0
  /\ IF frame.oversized = 0
     THEN /\ frame' = [frame EXCEPT !.pc = "raised"]
          /\ exc' = "ZeroDivisionError"
     ELSE /\ frame' = [Pass(frame, frame.max_lengths)
                         EXCEPT !.passes = Min2(@ + 1, MaxPasses)]
          /\ exc' = exc
  /\ UNCHANGED <<self, call, ret, draws, explicit, ncalls, hist, lvars>>

\* line 449: the loop test fails
WidthLeave ==
  /\ frame.pc = "while"
  /\ frame.free <= 0
  /\ frame' = [frame EXCEPT !.pc = "line 472"]
  /\ UNCHANGED <<tvars, hist, lvars>>

\* line 472
WidthAssign ==
  /\ frame.pc = "line 472"
  /\ self' = [self EXCEPT !._width = Some(frame.maxi)]
  /\ frame' = [frame EXCEPT !.pc = "done"]
  /\ UNCHANGED <<call, exc, ret, draws, explicit, ncalls, hist, lvars>>

\* lines 255-272: the rest of draw, with the widths just assigned
WidthDraw ==
  /\ frame.pc = "done"
  /\ Do(draw(self), "draw", << >>)
  /\ frame' = [frame EXCEPT !.pc = "drawn"]
  /\ UNCHANGED <<ncalls, hist, lvars>>

NextWidth ==
  \/ WidthAddRow
  \/ WidthEnter
  \/ WidthPass
  \/ WidthLeave
  \/ WidthAssign
  \/ WidthDraw

SpecWidth == InitWidth /\ [][NextWidth]_vars

\* the interpreter keeps executing the loop it is in: a step of lines 449-472
\* that can be taken is taken
SpecWidthFair ==
  SpecWidth /\ WF_vars(WidthPass) /\ WF_vars(WidthLeave) /\ WF_vars(WidthAssign)

(***************************************************************************)
(* SpecOrder: a caller that configures a table of two columns with up to    *)
(* MaxHist calls, every array of length two, and then draws it once         *)
(***************************************************************************)
MaxHist == 4

OrderCtorWidths == {80}

OrderHeaderArgs == {<<A, ABC>>, <<PyInt(5), A>>}

\* 5, and 5.25 as 21 quarters
OrderRowArgs == {<<PyInt(5), A>>, <<PyFloat(21), ABC>>}

OrderAlignArgs == {<<"r", "c">>}

OrderValignArgs == {<<"m", "b">>}

OrderDtypeArgs == {<<"f", "a">>, <<"i", "t">>}

OrderWidthArgs == {<<PyInt(2), PyInt(3)>>, <<PyInt(6), PyInt(1)>>}

OrderPrecisionArgs == {PyInt(1)}

InitOrder == Constructed(OrderCtorWidths)

\* the caller makes one more configuration call, which is remembered in hist
Configure(r, op, arg) ==
  /\ Len(hist) < MaxHist
  /\ call.op # "draw"
  /\ Do(r, op, arg)
  /\ hist' = Append(hist, [op |-> op, arg |-> arg])
  /\ UNCHANGED <<ncalls, frame, lvars>>

OrderHeader == \E a \in OrderHeaderArgs : Configure(header(self, a), "header", a)

OrderAddRow == \E a \in OrderRowArgs : Configure(add_row(self, a), "add_row", a)

OrderSetColsAlign ==
  \E a \in OrderAlignArgs : Configure(set_cols_align(self, a), "set_cols_align", a)

OrderSetColsValign ==
  \E a \in OrderValignArgs : Configure(set_cols_valign(self, a), "set_cols_valign", a)

OrderSetColsDtype ==
  \E a \in OrderDtypeArgs : Configure(set_cols_dtype(self, a), "set_cols_dtype", a)

OrderSetColsWidth ==
  \E a \in OrderWidthArgs : Configure(set_cols_width(self, a), "set_cols_width", a)

OrderSetPrecision ==
  \E a \in OrderPrecisionArgs : Configure(set_precision(self, a), "set_precision", a)

OrderDraw ==
  /\ call.op # "draw"
  /\ Do(draw(self), "draw", << >>)
  /\ UNCHANGED <<ncalls, frame, hist, lvars>>

NextOrder ==
  \/ OrderHeader
  \/ OrderAddRow
  \/ OrderSetColsAlign
  \/ OrderSetColsValign
  \/ OrderSetColsDtype
  \/ OrderSetColsWidth
  \/ OrderSetPrecision
  \/ OrderDraw

SpecOrder == InitOrder /\ [][NextOrder]_vars

(***************************************************************************)
(* SpecLambda: the web site sends up to MaxRequests requests, which          *)
(* lambda_handler serves concurrently, one S3 or Lambda call per step; the  *)
(* generation function runs for every event it was invoked with             *)
(***************************************************************************)
\* tournament ids, the first a prefix of the second as "2013" is of "20134"
Tournaments == {<<"2">>, <<"2", "0">>}

Schools == {<<"a">>, <<"b">>}

Bodies == [tournament : Tournaments, school : Schools]

\* a school whose summary is complete: the prompt and list the generation
\* function saves, and the results.txt written from them
Summarised(t, sc) ==
  {[Key |-> SchoolKey(t, sc, "results.txt"), Body |-> <<"results">> \o sc],
   [Key |-> SchoolKey(t, sc, "gpt_prompt.txt"), Body |-> <<"gpt_prompt">> \o sc],
   [Key |-> SchoolKey(t, sc, "numbered_list_response.txt"),
    Body |-> <<"numbered_list_response">> \o sc]}

InitBuckets == {UNION {Summarised(b.tournament, b.school) : b \in B} : B \in SUBSET Bodies}

\* what tabroom_summary.main can return: per school, the outputs it has
MainResponses ==
  {<< >>,
   <<[school_name |-> <<"a">>, keys |-> {"gpt_prompt", "numbered_list_response"}]>>,
   <<[school_name |-> <<"a">>, keys |-> {"gpt_prompt", "numbered_list_response"}],
     [school_name |-> <<"b">>, keys |-> {"numbered_list_response"}]>>}

InitLambda ==
  /\ self = Texttable(0)
  /\ call = NoCall
  /\ exc = "none"
  /\ ret = Unset
  /\ draws = 0
  /\ explicit = FALSE
  /\ ncalls = 0
  /\ frame = NoFrame
  /\ hist = << >>
  /\ bucket \in InitBuckets
  /\ handlers = [i \in Requests |-> NoHandler]
  /\ gens = [i \in Requests |-> NoGeneration]

Table == <<tvars, frame, hist>>

\* lines 16-21: request i arrives, after the requests before it
Receive(i) ==
  /\ handlers[i].pc = "idle"
  /\ \A h \in 1..(i - 1) : handlers[h].pc # "idle"
  /\ \E b \in Bodies : handlers' = [handlers EXCEPT ![i].pc = "line 22", ![i].body = b]
  /\ UNCHANGED <<Table, bucket, gens>>

\* lines 22-25
ListFile(i) ==
  /\ handlers[i].pc = "line 22"
  /\ handlers' =
       [handlers EXCEPT ![i].pc =
          IF list_objects_v2(bucket, SchoolKey(handlers[i].body.tournament,
                                               handlers[i].body.school, "results.txt")) # {}
          THEN "line 26" ELSE "line 46"]
  /\ UNCHANGED <<Table, bucket, gens>>

\* lines 26-28; get_object raises NoSuchKey for a key the bucket has not
GetFile(i) ==
  /\ handlers[i].pc = "line 26"
  /\ handlers' =
       IF HasKey(bucket, SchoolKey(handlers[i].body.tournament, handlers[i].body.school,
                                   "results.txt"))
       THEN [handlers EXCEPT ![i].pc = "line 29",
                             ![i].file_content =
                               get_object(bucket, SchoolKey(handlers[i].body.tournament,
                                                            handlers[i].body.school,
                                                            "results.txt"))]
       ELSE [handlers EXCEPT ![i].pc = "raised"]
  /\ UNCHANGED <<Table, bucket, gens>>

\* lines 29-40
GetGpt(i) ==
  /\ handlers[i].pc = "line 29"
  /\ handlers' =
       IF HasKey(bucket, SchoolKey(handlers[i].body.tournament, handlers[i].body.school,
                                   "gpt_prompt.txt"))
       THEN [handlers EXCEPT ![i].pc = "returned",
                             ![i].response =
                               Response(handlers[i].file_content,
                                        get_object(bucket,
                                                   SchoolKey(handlers[i].body.tournament,
                                                             handlers[i].body.school,
                                                             "gpt_prompt.txt")))]
       ELSE [handlers EXCEPT ![i].pc = "raised"]
  /\ UNCHANGED <<Table, bucket, gens>>

\* lines 46-61
ListAll(i) ==
  /\ handlers[i].pc = "line 46"
  /\ handlers' =
       IF list_objects_v2(bucket, handlers[i].body.tournament) # {}
       THEN [handlers EXCEPT ![i].pc = "returned", ![i].response = SchoolMissing]
       ELSE [handlers EXCEPT ![i].pc = "line 63"]
  /\ UNCHANGED <<Table, bucket, gens>>

\* lines 62-67: InvocationType "Event" queues the event and returns
Invoke(i) ==
  /\ handlers[i].pc = "line 63"
  /\ handlers' = [handlers EXCEPT ![i].pc = "line 69", ![i].invoked = @ + 1]
  /\ gens' = [gens EXCEPT ![i].pc = "queued", ![i].event = handlers[i].body]
  /\ UNCHANGED <<Table, bucket>>

\* lines 69-84
PutPlaceholder(i) ==
  /\ handlers[i].pc = "line 69"
  /\ bucket' = put_object(bucket, PlaceholderKey(handlers[i].body.tournament),
                          "Placeholder during generation.")
  /\ handlers' = [handlers EXCEPT ![i].pc = "returned", ![i].response = CheckBack]
  /\ UNCHANGED <<Table, gens>>

\* main.py lines 21-30: the event is delivered; a failing publish is only logged
GenStart(i) ==
  /\ gens[i].pc = "queued"
  /\ gens' = [gens EXCEPT ![i].pc = "line 34"]
  /\ UNCHANGED <<Table, bucket, handlers>>

\* the objects lines 52-64 save for the response: (school, file) in dict order
RECURSIVE Puts(_)
Puts(response) ==
  IF response = << >> THEN << >>
  ELSE (IF "gpt_prompt" \in Head(response).keys
        THEN <<[school_name |-> Head(response).school_name, file |-> "gpt_prompt"]>>
        ELSE << >>)
       \o (IF "numbered_list_response" \in Head(response).keys
           THEN <<[school_name |-> Head(response).school_name,
                   file |-> "numbered_list_response"]>>
           ELSE << >>)
       \o Puts(Tail(response))

\* lines 34-37: tabroom_summary.main returns a response
GenMain(i) ==
  /\ gens[i].pc = "line 34"
  /\ \E response \in MainResponses :
       gens' = [gens EXCEPT ![i].todo = Puts(response),
                            ![i].pc = IF Puts(response) = << >> THEN "line 67" ELSE "line 52"]
  /\ UNCHANGED <<Table, bucket, handlers>>

\* lines 34-37: tabroom_summary.main raises, and so does the handler
GenMainRaises(i) ==
  /\ gens[i].pc = "line 34"
  /\ gens' = [gens EXCEPT ![i].pc = "raised"]
  /\ UNCHANGED <<Table, bucket, handlers>>

\* lines 52-64: one put_object
GenPut(i) ==
  /\ gens[i].pc = "line 52"
  /\ bucket' = put_object(bucket,
                          SchoolKey(gens[i].event.tournament, Head(gens[i].todo).school_name,
                                    Head(gens[i].todo).file \o ".txt"),
                          <<Head(gens[i].todo).file>> \o Head(gens[i].todo).school_name)
  /\ gens' = [gens EXCEPT ![i].todo = Tail(@),
                          ![i].pc = IF Tail(gens[i].todo) = << >> THEN "line 67" ELSE "line 52"]
  /\ UNCHANGED <<Table, handlers>>

\* lines 65-71
GenDelete(i) ==
  /\ gens[i].pc = "line 67"
  /\ bucket' = delete_object(bucket, PlaceholderKey(gens[i].event.tournament))
  /\ gens' = [gens EXCEPT ![i].pc = "returned"]
  /\ UNCHANGED <<Table, handlers>>

NextLambda ==
  \/ \E i \in Requests : Receive(i)
  \/ \E i \in Requests : ListFile(i)
  \/ \E i \in Requests : GetFile(i)
  \/ \E i \in Requests : GetGpt(i)
  \/ \E i \in Requests : ListAll(i)
  \/ \E i \in Requests : Invoke(i)
  \/ \E i \in Requests : PutPlaceholder(i)
  \/ \E i \in Requests : GenStart(i)
  \/ \E i \in Requests : GenMain(i)
  \/ \E i \in Requests : GenMainRaises(i)
  \/ \E i \in Requests : GenPut(i)
  \/ \E i \in Requests : GenDelete(i)

SpecLambda == InitLambda /\ [][NextLambda]_vars

\* Lambda runs every invocation it has started or queued to its end: a step of
\* lambda_handler or of the generation handler that can be taken is taken.
\* Nothing makes the web site send a request.
SpecLambdaFair ==
  /\ SpecLambda
  /\ \A i \in Requests :
       /\ WF_vars(ListFile(i)) /\ WF_vars(GetFile(i)) /\ WF_vars(GetGpt(i))
       /\ WF_vars(ListAll(i)) /\ WF_vars(Invoke(i)) /\ WF_vars(PutPlaceholder(i))
       /\ WF_vars(GenStart(i)) /\ WF_vars(GenMain(i) \/ GenMainRaises(i))
       /\ WF_vars(GenPut(i)) /\ WF_vars(GenDelete(i))

(***************************************************************************)
(* Claims about the Texttable object                                        *)
(***************************************************************************)
SizedOps ==
  {"header", "add_row", "set_cols_align", "set_cols_valign", "set_cols_dtype", "set_cols_width"}

FailingOps == SizedOps \cup {"add_rows", "set_precision", "set_chars"}

PositiveInts(array) == \A j \in 1..Len(array) : array[j].k = "int" /\ array[j].n > 0

ColumnsFixed == IsSet(self._row_size) /\ Val(self._row_size) >= 1

\* C1: once the column count N >= 1 is fixed, a header, add_row or set_cols_* call
\* raises ArraySizeError when its array has another length than N, and returns
\* when its array has length N (the widths being positive integers).
C1_LengthDecidesOutcome ==
  [][(ColumnsFixed /\ call'.op \in SizedOps) =>
       /\ Len(call'.arg) # Val(self._row_size) => exc' = "ArraySizeError"
       /\ (/\ Len(call'.arg) = Val(self._row_size)
           /\ call'.op = "set_cols_width" => PositiveInts(call'.arg))
          => exc' = "none"]_vars

\* C2: a setter or insertion call that raises leaves the object as it was.
C2_FailedCallChangesNothing ==
  [][(/\ call'.op \in FailingOps
      /\ exc' # "none"
      /\ ~(call'.op = "set_cols_width" /\ call'.arg = << >>))
     => self' = self]_vars

FallbackCells == {PyNaN, PyInf, PyNegInf, NanText, txt(<<"i", "n", "f">>), A, PyNone}

LengthFits(array) ==
  ~IsSet(self._row_size) \/ Val(self._row_size) \in {0, Len(array)}

\* C6: for every column dtype, add_row with cells that are a float NaN or
\* infinity, the text of one, other non-numeric text or None returns and stores
\* the raw string form of every cell.
C6_FallbackNeverRaises ==
  [][(/\ call'.op = "add_row"
      /\ LengthFits(call'.arg)
      /\ \A j \in 1..Len(call'.arg) : call'.arg[j] \in FallbackCells)
     => /\ exc' = "none"
        /\ self'._rows = Append(self._rows, [j \in 1..Len(call'.arg) |-> str(call'.arg[j])])]_vars

\* the same configuration and content in an object that was never drawn
FreshTable(t) == [t EXCEPT !._width = Unset, !._hline_string = Unset]

\* C3: while no width array was set with set_cols_width, a draw returns what a
\* fresh table of the same configuration and content returns when drawn once.
C3_DrawReflectsContent ==
  (call.op = "draw" /\ ~explicit) =>
    /\ ret = draw(FreshTable(self)).ret
    /\ exc = draw(FreshTable(self)).exc

\* C7: a draw that follows a draw, with no other call in between, returns the
\* same text (or raises the same exception).
C7_DrawIdempotent ==
  [][(call.op = "draw" /\ call'.op = "draw") => (ret' = ret /\ exc' = exc)]_vars

\* two draws in a row of a table whose widths the first of them computed
C7_Witness ==
  /\ draws = 2 /\ exc = "none" /\ IsSet(ret) /\ ~explicit
  /\ IsSet(self._width) /\ IsSet(self._align) /\ IsSet(self._hline_string)

\* what a line of the output is made of: [kind, letters]
RuleChars == {"-", "~", "+", "*"}

HeaderRuleChars == {"=", "#", "+", "*"}

Letters == {"a", "b", "c"}

LineKind(line) ==
  IF line # << >> /\ \A j \in 1..Len(line) : line[j] \in RuleChars THEN "rule"
  ELSE IF line # << >> /\ \A j \in 1..Len(line) : line[j] \in HeaderRuleChars THEN "header rule"
  ELSE "text"

Describe(line) ==
  [kind |-> LineKind(line), letters |-> Cardinality({j \in 1..Len(line) : line[j] \in Letters})]

Rule == [kind |-> "rule", letters |-> 0]

HeaderRule == [kind |-> "header rule", letters |-> 0]

\* the block of a row of cells in columns of the widths w, cells aligned to the
\* top: as many lines as the longest cell needs, line i holding the i-th w[j]
\* characters of cell j
BlockHeight(cells, w) ==
  MaxSeq(<<0>> \o [j \in 1..Len(cells) |-> (Len(cells[j]) + w[j] - 1) \div w[j]])

Block(cells, w) ==
  [i \in 1..BlockHeight(cells, w) |->
    [kind |-> "text",
     letters |-> SumSeq([j \in 1..Len(cells) |->
                          Max2(0, Min2(w[j], Len(cells[j]) - (i - 1) * w[j]))])]]

ExpectedLines(t) ==
  LET w == Val(t._width)
      border == HasFlag(t._deco, BORDER)
  IN (IF border THEN <<Rule>> ELSE << >>)
       \o (IF t._header # << >> THEN Block(t._header, w) ELSE << >>)
       \o (IF HasFlag(t._deco, HEADER) /\ t._header # << >> THEN <<HeaderRule>> ELSE << >>)
       \o Flatten([k \in 1..Len(t._rows) |->
                    Block(t._rows[k], w)
                      \o (IF HasFlag(t._deco, HLINES) /\ k < Len(t._rows)
                          THEN <<Rule>> ELSE << >>)])
       \o (IF border THEN <<Rule>> ELSE << >>)

OutputLines == [j \in 1..Len(Split(Val(ret), NL)) |-> Describe(Split(Val(ret), NL)[j])]

\* C8: a draw that returns emits, in this order and nothing else: a top border
\* line iff the border is on; the header block iff a header is set; a header
\* separator iff that flag is on and a header is set; every row block in
\* insertion order, followed by a separator iff row separators are on and the
\* row is not the last; a bottom border line iff the border is on.  A table
\* with neither header nor rows draws to nothing, without an error.
C8_LinesInOrder ==
  call.op = "draw" =>
    IF self._header = << >> /\ self._rows = << >>
    THEN exc = "none" /\ ret = Unset
    ELSE exc = "none" => (IsSet(ret) /\ OutputLines = ExpectedLines(self))

\* a table with a header and two rows drawn with row separators and no border
C8_Witness ==
  /\ call.op = "draw" /\ exc = "none" /\ IsSet(ret)
  /\ self._header # << >> /\ Len(self._rows) = 2
  /\ self._deco = HLINES + VLINES

(***************************************************************************)
(* Claims about the column widths                                           *)
(***************************************************************************)
\* the draw in progress had to shrink the columns, and has computed their widths
Shrunk ==
  /\ frame.pc \in {"line 472", "done", "drawn"}
  /\ MustShrink(self._max_width, frame.max_lengths)

\* every line of the text the draw returned
RenderedLines == Split(Val(ret), NL)

\* C4: when the natural widths of the N columns do not fit max_width (their
\* sum + 3N + 1 exceeds it), the widths the redistribution computes sum to at
\* most max_width - 3N - 1, and every line then drawn is at most max_width long.
C4_ShrunkWidthsFit ==
  Shrunk =>
    /\ SumSeq(frame.maxi) <= self._max_width - 3 * Len(frame.maxi) - 1
    /\ (frame.pc = "drawn" /\ exc = "none" /\ IsSet(ret)) =>
         \A j \in 1..Len(RenderedLines) : Len(RenderedLines[j]) <= self._max_width

\* C10: the loop that hands out the free space terminates, and whenever a pass
\* starts (free > 0) the count of oversized columns is not zero and some column
\* is still narrower than its natural width.
C10_LoopTerminates ==
  /\ [](frame.pc = "while" /\ frame.free > 0 =>
          /\ frame.oversized > 0
          /\ \E col \in 1..Len(frame.maxi) : frame.maxi[col] < frame.max_lengths[col])
  /\ [](frame.pc = "while" => <>(frame.pc = "done"))

\* the loop has made two passes and the widths have been assigned
C10_Witness == frame.pc = "done" /\ frame.passes = MaxPasses

(***************************************************************************)
(* Claims about the order of the configuration calls                        *)
(***************************************************************************)
\* the outcome of one remembered call on the table t
Replay(t, c) ==
  CASE c.op = "header" -> header(t, c.arg)
    [] c.op = "add_row" -> add_row(t, c.arg)
    [] c.op = "set_cols_align" -> set_cols_align(t, c.arg)
    [] c.op = "set_cols_valign" -> set_cols_valign(t, c.arg)
    [] c.op = "set_cols_dtype" -> set_cols_dtype(t, c.arg)
    [] c.op = "set_cols_width" -> set_cols_width(t, c.arg)
    [] c.op = "set_precision" -> set_precision(t, c.arg)

\* the table after the calls cs, made in this order on the table t
RECURSIVE ReplayAll(_, _)
ReplayAll(t, cs) == IF cs = << >> THEN t ELSE ReplayAll(Replay(t, Head(cs)).self, Tail(cs))

\* the orders of n calls: order[k] is the place in hist of the call made k-th
Orders(n) == {order \in [1..n -> 1..n] : \A k1, k2 \in 1..n : k1 # k2 => order[k1] # order[k2]}

Reordered(order) == [k \in 1..Len(hist) |-> hist[order[k]]]

\* the order keeps the calls of the operations ops in the order hist has them
Keeps(order, ops) ==
  \A k1, k2 \in 1..Len(hist) :
    (k1 < k2 /\ hist[order[k1]].op \in ops /\ hist[order[k2]].op \in ops) => order[k1] < order[k2]

\* what draw gives after the calls of hist made in this order on a new table
DrawAfter(order) == draw(ReplayAll(Texttable(self._max_width), Reordered(order)))

SameDraw(order) == DrawAfter(order).ret = ret /\ DrawAfter(order).exc = exc

\* no operation but add_row is called twice
OncePerSetter ==
  \A k1, k2 \in 1..Len(hist) : (k1 # k2 /\ hist[k1].op = hist[k2].op) => hist[k1].op = "add_row"

\* C5 as stated: the draw gives the same output after the same calls (any
\* add_row calls, and at most one call of each other operation) made in any
\* order that keeps the add_row calls in their order.
C5_AnyOrderSameDraw ==
  (call.op = "draw" /\ OncePerSetter) =>
    \A order \in Orders(Len(hist)) : Keeps(order, {"add_row"}) => SameDraw(order)

\* the calls whose order matters: a cell is formatted when its row is added,
\* with the datatypes and the precision of that moment
Formatting == {"add_row", "set_cols_dtype", "set_precision"}

Setters == {"header", "set_cols_align", "set_cols_valign", "set_cols_width"}

\* C5, amended: the draw gives the same output after the same calls made in any
\* order that keeps the add_row, set_cols_dtype and set_precision calls in their
\* order among themselves, and the calls of each other operation in their order
\* among themselves.
C5_FormattingOrderSameDraw ==
  call.op = "draw" =>
    \A order \in Orders(Len(hist)) :
      (Keeps(order, Formatting) /\ \A op \in Setters : Keeps(order, {op})) => SameDraw(order)

\* a drawn table configured by a header, widths, datatypes and a row of numbers
C5_Witness ==
  /\ call.op = "draw" /\ exc = "none" /\ IsSet(ret)
  /\ {hist[k].op : k \in 1..Len(hist)} =
       {"header", "set_cols_width", "set_cols_dtype", "add_row"}

(***************************************************************************)
(* Claims about lambda_handler                                              *)
(***************************************************************************)
\* the bucket holds data of the tournament: an object under "{tournament_id}/"
TournamentData(b, tournament_id) ==
  \E o \in b : StartsWith(o.Key, tournament_id \o <<SLASH>>)

\* the cached result of the request exists
Cached(b, body) == HasKey(b, SchoolKey(body.tournament, body.school, "results.txt"))

\* the step just taken was taken by request i, from line pc
Left(i, pc) == handlers[i].pc = pc /\ handlers'[i].pc # pc

\* C9: lambda_handler answers by the state of the bucket.  If the cached result
\* of {tournament}/{school} exists it returns its file_content and gpt_content;
\* if not and the tournament has no data at all, it invokes the generation once,
\* writes {tournament}/placeholder.txt and returns the "check back" message; if
\* not but the tournament has data, it returns the "school does not" message,
\* invokes nothing and writes nothing.  Every response has the CORS headers.
C9_AnswersByBucket ==
  [][\A i \in Requests :
       /\ Left(i, "line 22") =>
            handlers'[i].pc = IF Cached(bucket, handlers[i].body) THEN "line 26" ELSE "line 46"
       /\ Left(i, "line 26") => handlers'[i].pc = "line 29"
       /\ Left(i, "line 29") =>
            /\ handlers'[i].pc = "returned"
            /\ handlers'[i].response.file_content =
                 get_object(bucket, SchoolKey(handlers[i].body.tournament,
                                              handlers[i].body.school, "results.txt"))
            /\ handlers'[i].response.gpt_content =
                 get_object(bucket, SchoolKey(handlers[i].body.tournament,
                                              handlers[i].body.school, "gpt_prompt.txt"))
       /\ Left(i, "line 46") =>
            IF TournamentData(bucket, handlers[i].body.tournament)
            THEN /\ handlers'[i].pc = "returned"
                 /\ handlers'[i].response = SchoolMissing
                 /\ handlers'[i].invoked = 0
                 /\ gens'[i] = NoGeneration
                 /\ bucket' = bucket
            ELSE handlers'[i].pc = "line 63"
       /\ Left(i, "line 63") =>
            handlers'[i].pc = "line 69" /\ handlers'[i].invoked = 1 /\ gens'[i].pc = "queued"
       /\ Left(i, "line 69") =>
            /\ handlers'[i].pc = "returned"
            /\ handlers'[i].response = CheckBack
            /\ handlers'[i].invoked = 1
            /\ HasKey(bucket', PlaceholderKey(handlers[i].body.tournament))
       /\ handlers'[i].pc = "returned" => handlers'[i].response.headers = cors_headers
    ]_vars

(***************************************************************************)
(* Claims about the lengths of the arrays of a table                        *)
(***************************************************************************)
\* a per-column array that does not exist, or has n entries
Fits(a, n) == IsSet(a) => Len(Val(a)) = n

\* C11: whenever the column count is fixed, the header when it is not empty,
\* every stored row and every per-column array that is set (align, valign,
\* dtype, width) have exactly as many entries as the column count.
C11_LengthsMatchColumns ==
  IsSet(self._row_size) =>
    /\ self._header # << >> => Len(self._header) = Val(self._row_size)
    /\ \A k \in 1..Len(self._rows) : Len(self._rows[k]) = Val(self._row_size)
    /\ Fits(self._align, Val(self._row_size))
    /\ Fits(self._valign, Val(self._row_size))
    /\ Fits(self._dtype, Val(self._row_size))
    /\ Fits(self._width, Val(self._row_size))

\* C12: the widths draw computes for a table with a row are, for every column,
\* at least 1 and at most the natural width of the column, whatever max_width
\* and the cells are, and the draw that uses them does not fail.
C12_WidthsUsable ==
  /\ frame.pc \in {"line 472", "done", "drawn"} =>
       \A col \in 1..Len(frame.maxi) :
         1 <= frame.maxi[col] /\ frame.maxi[col] <= frame.max_lengths[col]
  /\ frame.pc = "drawn" => exc = "none"

(***************************************************************************)
(* Claims about the placeholder                                             *)
(***************************************************************************)
\* the generation request i invoked is queued or running
Generating(i) == gens[i].pc \in {"queued", "line 34", "line 52", "line 67"}

\* C13: the placeholder is a lock on generation: at no time are two generation
\* runs of the same tournament queued or running, however the requests for
\* the tournament and the generation handler interleave.
C13_OneGenerationPerTournament ==
  \A i, j \in Requests :
    (i # j /\ Generating(i) /\ Generating(j)) =>
      gens[i].event.tournament # gens[j].event.tournament

\* request i is being served for the tournament
Serving(i, tournament_id) ==
  /\ handlers[i].pc \notin {"idle", "returned", "raised"}
  /\ handlers[i].body.tournament = tournament_id

\* only the placeholder is left of the generation of the tournament: it is in
\* the bucket while no generation of the tournament is queued or running and no
\* request for it is being served
PlaceholderLeft(tournament_id) ==
  /\ HasKey(bucket, PlaceholderKey(tournament_id))
  /\ \A i \in Requests :
       /\ ~Serving(i, tournament_id)
       /\ ~(Generating(i) /\ gens[i].event.tournament = tournament_id)

\* C14: every generation run that lambda_handler triggers ends with the bucket
\* free of {tournament}/placeholder.txt, whether the run ends normally or by an
\* exception and however its deletion interleaves with the placeholder write of
\* the request: the placeholder is never left behind for good.
C14_PlaceholderRemoved == \A t \in Tournaments : []<>(~PlaceholderLeft(t))
====
